---- MODULE Spec2Model ----
(***************************************************************************)
(* Model of the three scraper pipelines of the repository:                 *)
(*   CMESOFR.py                (browser-driven SOFR strip-rate pipeline)   *)
(*   CNBC.py                   (direct-HTTPS chart pipeline with retry)    *)
(*   CNBC_US10YTIP_History.py  (direct-HTTPS chart pipeline, one request)  *)
(* Strings are sequences of symbols: one character per symbol for the      *)
(* numeric fields, one token per symbol for date and time labels.  A JSON  *)
(* value is a record [k, v]: its kind and its text.                        *)
(***************************************************************************)
EXTENDS Integers, Sequences, FiniteSets, TLC

VARIABLES
    prog,        \* which script runs: "CMESOFR", "CNBC" or "HIST"
    pc,          \* position of the process
    table,       \* module-level store handle: "unset", "ok" or "none"
    exitStatus,  \* -1 while running, then the exit status of the process
    requests,    \* upstream fetches issued (driver.get / requests.get)
    sleeps,      \* inter-attempt delays taken (time.sleep)
    outcomes,    \* outcome of each request attempt, in order
    resp,        \* what the upstream returned to the last fetch
    driver,      \* browser session: "none", "open" or "closed"
    quits,       \* calls of driver.quit()
    df,          \* what the fetcher returned: [k, rows]
    sel,         \* per processed day, the candidate selected per term
    puts,        \* items handed to batch.put_item, in order
    written,     \* the count the Store Writer returned (-1: not called)
    store,       \* the store table: the items it holds, one per key
    storeOnce,   \* the store as the first run of the Store Writer left it
    runs         \* runs of the Store Writer on the fetched frame

vars == <<prog, pc, table, exitStatus, requests, sleeps, outcomes, resp,
          driver, quits, df, sel, puts, written, store, storeOnce, runs>>

storeVars == <<store, storeOnce, runs>>

-----------------------------------------------------------------------------
(* Bounds of the model *)

MaxBars == 2
MaxDays == 2
MaxCands == 3
MaxRecords == 7

-----------------------------------------------------------------------------
(* Strings *)

Digits == {"0", "1", "2", "3", "4", "5", "6", "7", "8", "9"}

DigitVal(c) ==
    CASE c = "0" -> 0 [] c = "1" -> 1 [] c = "2" -> 2 [] c = "3" -> 3
      [] c = "4" -> 4 [] c = "5" -> 5 [] c = "6" -> 6 [] c = "7" -> 7
      [] c = "8" -> 8 [] c = "9" -> 9

LowerSym(c) ==
    CASE c = "N" -> "n" [] c = "A" -> "a" [] c = "O" -> "o" [] c = "E" -> "e"
      [] c = "U" -> "u" [] c = "C" -> "c" [] c = "H" -> "h" [] c = "I" -> "i"
      [] c = "F" -> "f" [] OTHER -> c

Lower(s) == [i \in 1..Len(s) |-> LowerSym(s[i])]

AllDigits(s) == \A i \in 1..Len(s) : s[i] \in Digits

HasSym(s, c) == \E i \in 1..Len(s) : s[i] = c

IndexOf(s, c) ==
    IF HasSym(s, c) THEN CHOOSE i \in 1..Len(s) :
                             s[i] = c /\ \A j \in 1..(i - 1) : s[j] # c
    ELSE 0

\* str.replace(c, '')
RECURSIVE RemoveSym(_, _)
RemoveSym(s, c) ==
    IF s = <<>> THEN <<>>
    ELSE IF Head(s) = c THEN RemoveSym(Tail(s), c)
    ELSE <<Head(s)>> \o RemoveSym(Tail(s), c)

\* str.startswith(p)
StartsWith(s, p) == Len(p) <= Len(s) /\ SubSeq(s, 1, Len(p)) = p

\* sub in s
Contains(s, sub) ==
    \E i \in 1..(Len(s) - Len(sub) + 1) : SubSeq(s, i, i + Len(sub) - 1) = sub

RECURSIVE StripLeadingZeros(_)
StripLeadingZeros(s) ==
    IF Len(s) > 1 /\ Head(s) = "0" THEN StripLeadingZeros(Tail(s)) ELSE s

RECURSIVE StripTrailingZeros(_)
StripTrailingZeros(s) ==
    IF s # <<>> /\ s[Len(s)] = "0"
    THEN StripTrailingZeros(SubSeq(s, 1, Len(s) - 1)) ELSE s

-----------------------------------------------------------------------------
(* Numbers.  A parsed number is [ok, kind, neg, ip, fp]: whether the text   *)
(* parsed, "num" / "nan" / "inf", the sign, and the canonical digits of the *)
(* integer and the fractional part.                                         *)

NoNumber == [ok |-> FALSE, kind |-> "none", neg |-> FALSE, ip |-> <<>>, fp |-> <<>>]

Unsigned(s) == IF s # <<>> /\ Head(s) \in {"+", "-"} THEN Tail(s) ELSE s

IsNeg(s) == s # <<>> /\ Head(s) = "-"

\* The numeral grammar float() and decimal.Decimal() share on the inputs
\* of the model: [sign] digits [. digits], [sign] . digits, nan, inf.
ParseNumber(s) ==
    LET body == Unsigned(s)
        dot  == IndexOf(body, ".")
        ipart == IF dot = 0 THEN body ELSE SubSeq(body, 1, dot - 1)
        fpart == IF dot = 0 THEN <<>> ELSE SubSeq(body, dot + 1, Len(body))
    IN  IF Lower(body) = <<"n", "a", "n">>
        THEN [ok |-> TRUE, kind |-> "nan", neg |-> FALSE, ip |-> <<>>, fp |-> <<>>]
        ELSE IF Lower(body) = <<"i", "n", "f">>
        THEN [ok |-> TRUE, kind |-> "inf", neg |-> IsNeg(s), ip |-> <<>>, fp |-> <<>>]
        ELSE IF AllDigits(ipart) /\ AllDigits(fpart) /\ Len(ipart) + Len(fpart) > 0
        THEN [ok |-> TRUE, kind |-> "num", neg |-> IsNeg(s),
              ip |-> IF ipart = <<>> THEN <<"0">> ELSE StripLeadingZeros(ipart),
              fp |-> StripTrailingZeros(fpart)]
        ELSE NoNumber

\* A double carries every numeral of up to 15 significant digits exactly
\* (float(s) followed by repr gives the numeral back); a longer numeral is
\* rounded to the nearest double.
DoubleDigits == 15

SigDigits(x) ==
    IF x.ip = <<"0">> THEN Len(StripLeadingZeros(x.fp))
    ELSE IF x.fp = <<>> THEN Len(StripTrailingZeros(x.ip))
    ELSE Len(x.ip) + Len(x.fp)

\* The numeral repr shows for the double nearest to x.  For the long numeral
\* of the model, 5.123456789012345678, CPython gives 5.123456789012345;
\* for any other long numeral repr shows at most 17 significant digits.
NearestDouble(x) ==
    IF x.ip = <<"5">>
       /\ x.fp = <<"1", "2", "3", "4", "5", "6", "7", "8", "9", "0", "1", "2",
                   "3", "4", "5", "6", "7", "8">>
    THEN [x EXCEPT !.fp = SubSeq(x.fp, 1, DoubleDigits)]
    ELSE IF Len(x.ip) <= DoubleDigits + 2
    THEN [x EXCEPT !.fp = StripTrailingZeros(
                              SubSeq(x.fp, 1, DoubleDigits + 2 - Len(x.ip)))]
    ELSE x

\* the double a parsed numeral is stored as, read back through repr
RoundToDouble(x) ==
    IF x.ok /\ x.kind = "num" /\ SigDigits(x) > DoubleDigits
    THEN NearestDouble(x)
    ELSE x

\* float(s): raises ValueError when s is no numeral
PyFloat(s) == RoundToDouble(ParseNumber(s))

\* str(x) of a float: repr always shows a fractional part
FloatStr(x) ==
    IF x.kind = "nan" THEN <<"n", "a", "n">>
    ELSE IF x.kind = "inf"
    THEN (IF x.neg THEN <<"-">> ELSE <<>>) \o <<"i", "n", "f">>
    ELSE (IF x.neg THEN <<"-">> ELSE <<>>) \o x.ip \o <<".">>
         \o (IF x.fp = <<>> THEN <<"0">> ELSE x.fp)

\* decimal.Decimal(s): raises InvalidOperation when s is no numeral
PyDecimal(s) == ParseNumber(s)

\* int(s) of a digit string
RECURSIVE DigitsToInt(_)
DigitsToInt(s) ==
    IF s = <<>> THEN 0
    ELSE 10 * DigitsToInt(SubSeq(s, 1, Len(s) - 1)) + DigitVal(s[Len(s)])

\* pd.isna(x) of a float
IsNaN(x) == x.ok /\ x.kind = "nan"

-----------------------------------------------------------------------------
(* JSON values *)

JMissing == [k |-> "missing", v |-> <<>>]
JNull == [k |-> "null", v |-> <<>>]
JStr(s) == [k |-> "str", v |-> s]
JNum(s) == [k |-> "num", v |-> s]

\* dict.get(key) is None
IsNone(j) == j.k \in {"missing", "null"}

\* str(dict.get(key, default))
StrOfGet(j, default) ==
    CASE j.k = "missing" -> default
      [] j.k = "null" -> <<"N", "o", "n", "e">>
      [] OTHER -> j.v

-----------------------------------------------------------------------------
(* Chart data: upstream responses *)

BoundedSeq(S, n) == UNION {[1..m -> S] : m \in 0..n}

TimeVals == {JMissing, JNum(<<"1", "0", "0", "0">>), JNum(<<"2", "0", "0", "0">>)}

CloseVals == {JMissing, JNull, JStr(<<"1", ".", "5">>), JStr(<<"2", "%">>),
              JStr(<<"U", "N", "C", "H">>), JStr(<<"n", "a", "n">>)}

Bars == [tradeTimeinMills : TimeVals, close : CloseVals]

ChartBody(top, data, chartData, priceBars) ==
    [kind |-> "json", top |-> top, data |-> data, chartData |-> chartData,
     priceBars |-> priceBars]

\* The shapes of a JSON body: not an object, an object without the nested
\* path at some level, and an object with data.chartData.priceBars.
ChartBodies ==
    {ChartBody("list", "missing", "missing", <<>>),
     ChartBody("dict", "missing", "missing", <<>>),
     ChartBody("dict", "str", "missing", <<>>),
     ChartBody("dict", "dict", "missing", <<>>),
     ChartBody("dict", "dict", "str", <<>>)}
    \cup {ChartBody("dict", "dict", "dict", b) : b \in BoundedSeq(Bars, MaxBars)}

ChartFailure(kind) ==
    [kind |-> kind, top |-> "none", data |-> "missing", chartData |-> "missing",
     priceBars |-> <<>>]

\* requests.get / raise_for_status / response.json may raise
ChartResponses ==
    {ChartFailure("transport"), ChartFailure("http"), ChartFailure("badjson")}
    \cup ChartBodies

NoResp == ChartFailure("none")

\* data.get("data") and isinstance(data["data"], dict) and
\* data["data"].get("chartData") and isinstance(..., dict) and
\* data["data"]["chartData"].get("priceBars")
HasPriceBars(body) ==
    /\ body.data # "missing"
    /\ body.data = "dict"
    /\ body.chartData # "missing"
    /\ body.chartData = "dict"
    /\ body.priceBars # <<>>

\* what the attempt was, for the record of attempts
OutcomeOf(r) ==
    IF r.kind # "json" THEN r.kind
    ELSE IF r.top # "dict" THEN "notdict"
    ELSE IF HasPriceBars(r) THEN "bars"
    ELSE "nopath"

-----------------------------------------------------------------------------
(* Chart data: normalization *)

\* datetime.fromtimestamp(timestamp_ms / 1000, tz=timezone.utc)
FromTimestampMs(ms) == [sec |-> ms \div 1000, micro |-> (ms % 1000) * 1000]

\* int(datetime_obj.timestamp() * 1000)
ToTimestampMs(dt) == dt.sec * 1000 + dt.micro \div 1000

\* One bar of CNBC.py: the point it appends, or emit = FALSE
BarPoint(bar) ==
    LET timestamp_val == bar.tradeTimeinMills
        close_value_str == StrOfGet(bar.close, <<"0">>)
        value_to_store ==
            IF HasSym(close_value_str, "%")
            THEN PyFloat(RemoveSym(close_value_str, "%"))
            ELSE PyFloat(close_value_str)
    IN  IF IsNone(timestamp_val) \/ ~AllDigits(timestamp_val.v)
           \/ timestamp_val.v = <<>>
        THEN [emit |-> FALSE, DateTime |-> FromTimestampMs(0), Value |-> NoNumber]
        ELSE IF ~value_to_store.ok
        THEN [emit |-> FALSE, DateTime |-> FromTimestampMs(0), Value |-> NoNumber]
        ELSE [emit |-> TRUE,
              DateTime |-> FromTimestampMs(DigitsToInt(timestamp_val.v)),
              Value |-> value_to_store]

\* One bar of CNBC_US10YTIP_History.py
HistBarPoint(bar) ==
    LET timestamp_val == bar.tradeTimeinMills
        close_value_str == StrOfGet(bar.close, <<"0">>)
        close_price ==
            IF HasSym(close_value_str, "%")
            THEN PyFloat(RemoveSym(close_value_str, "%"))
            ELSE PyFloat(close_value_str)
    IN  IF IsNone(timestamp_val) \/ ~AllDigits(timestamp_val.v)
           \/ timestamp_val.v = <<>>
        THEN [emit |-> FALSE, DateTime |-> FromTimestampMs(0), Value |-> NoNumber]
        ELSE IF ~close_price.ok
        THEN [emit |-> FALSE, DateTime |-> FromTimestampMs(0), Value |-> NoNumber]
        ELSE [emit |-> TRUE,
              DateTime |-> FromTimestampMs(DigitsToInt(timestamp_val.v)),
              Value |-> close_price]

\* A row of the DataFrame: its index label (the position in processed_data,
\* which sort_values keeps), the bar it came from, and the two columns.
ChartRow(label, b, p) ==
    [label |-> label, bar |-> b, DateTime |-> p.DateTime, Value |-> p.Value]

\* for bar in price_bars: ... processed_data.append(...)
RECURSIVE ProcessBars(_, _, _)
ProcessBars(price_bars, i, processed_data) ==
    IF i > Len(price_bars) THEN processed_data
    ELSE LET p == BarPoint(price_bars[i])
         IN  ProcessBars(price_bars, i + 1,
                 IF p.emit
                 THEN Append(processed_data,
                             ChartRow(Len(processed_data), i, p))
                 ELSE processed_data)

RECURSIVE HistProcessBars(_, _, _)
HistProcessBars(price_bars, i, processed_data) ==
    IF i > Len(price_bars) THEN processed_data
    ELSE LET p == HistBarPoint(price_bars[i])
         IN  HistProcessBars(price_bars, i + 1,
                 IF p.emit
                 THEN Append(processed_data,
                             ChartRow(Len(processed_data), i, p))
                 ELSE processed_data)

TimeLeq(a, b) == a.sec < b.sec \/ (a.sec = b.sec /\ a.micro <= b.micro)

\* df.sort_values(by='DateTime', inplace=True): the default kind is
\* quicksort, which is not stable, so every ascending arrangement of the
\* rows is a possible result.
SortValues(rows) ==
    {[i \in 1..Len(rows) |-> rows[p[i]]] : p \in
        {q \in Permutations(1..Len(rows)) :
            \A i, j \in 1..Len(rows) :
                i < j => TimeLeq(rows[q[i]].DateTime, rows[q[j]].DateTime)}}

DataFrame(rows) == [k |-> "df", rows |-> rows]
NoneFrame == [k |-> "none", rows |-> <<>>]
IsEmpty(d) == d.rows = <<>>

-----------------------------------------------------------------------------
(* Chart data: Store Writers *)

CNBC_METRIC_ID == "CNBC_US10YTIP_1D_Close"
HIST_METRIC_ID == "CNBC_US10YTIP_Close"
UNIT_FOR_METRIC == "%"

\* Item stamped with the run that wrote it instead of the date of the data
Item_RunStamped(metricId, timestamp, value, sourceDate, unit) ==
    [metricId |-> metricId, timestamp |-> timestamp, value |-> value,
     sourceDate |-> runs, unit |-> unit]

Item(metricId, timestamp, value, sourceDate, unit) ==
    [metricId |-> metricId, timestamp |-> timestamp, value |-> value,
     sourceDate |-> sourceDate, unit |-> unit]

\* batch.put_item(Item=item) on a table keyed by (metricId, timestamp): the
\* item replaces the one stored under its key
SameKey(a, b) == a.metricId = b.metricId /\ a.timestamp = b.timestamp

PutItem(s, item) == {x \in s : ~SameKey(x, item)} \cup {item}

\* the puts of one batch_writer block, in order
RECURSIVE ApplyPuts(_, _)
ApplyPuts(s, items) ==
    IF items = <<>> THEN s
    ELSE ApplyPuts(PutItem(s, Head(items)), Tail(items))

WriterResult(raised, items, count) ==
    [raised |-> raised, puts |-> items, count |-> count]

\* pandas.Series defines no is_finite: evaluating
\* pd.Series(row['Value']).is_finite() raises AttributeError.
SeriesHasIsFinite == FALSE

IsFinite(x) == x.kind = "num"

\* store_data_in_dynamodb of CNBC.py: the loop over df.iterrows() from row i.
\* AttributeError is not among the exceptions the loop catches: it leaves
\* the function (the batch writer flushes what was put before).
RECURSIVE StoreRows(_, _, _, _)
StoreRows(rows, i, items, items_stored_count) ==
    IF i > Len(rows) THEN WriterResult(FALSE, items, items_stored_count)
    ELSE LET row == rows[i]
             db_timestamp == ToTimestampMs(row.DateTime)
             value == PyDecimal(FloatStr(row.Value))
         IN  IF IsNaN(row.Value)
             THEN StoreRows(rows, i + 1, items, items_stored_count)
             ELSE IF ~SeriesHasIsFinite
             THEN WriterResult(TRUE, items, items_stored_count)
             ELSE IF ~IsFinite(row.Value) \/ ~value.ok
             THEN StoreRows(rows, i + 1, items, items_stored_count)
             ELSE StoreRows(rows, i + 1,
                      Append(items, Item(CNBC_METRIC_ID, db_timestamp, value,
                                         row.DateTime.sec, UNIT_FOR_METRIC)),
                      items_stored_count + 1)

store_data_in_dynamodb(d) ==
    IF d.k = "none" \/ IsEmpty(d) THEN WriterResult(FALSE, <<>>, 0)
    ELSE StoreRows(d.rows, 1, <<>>, 0)

\* store_yield_data_in_dynamodb of CNBC_US10YTIP_History.py
RECURSIVE StoreYieldRows(_, _, _, _)
StoreYieldRows(rows, i, items, items_stored_count) ==
    IF i > Len(rows) THEN WriterResult(FALSE, items, items_stored_count)
    ELSE LET row == rows[i]
             db_timestamp == ToTimestampMs(row.DateTime)
             value == PyDecimal(FloatStr(row.Value))
         IN  IF ~value.ok
             THEN StoreYieldRows(rows, i + 1, items, items_stored_count)
             ELSE StoreYieldRows(rows, i + 1,
                      Append(items, Item(HIST_METRIC_ID, db_timestamp, value,
                                         row.DateTime.sec, UNIT_FOR_METRIC)),
                      items_stored_count + 1)

store_yield_data_in_dynamodb(d) ==
    IF d.k = "none" \/ IsEmpty(d) THEN WriterResult(FALSE, <<>>, 0)
    ELSE StoreYieldRows(d.rows, 1, <<>>, 0)

-----------------------------------------------------------------------------
(* CNBC.py: fetch_cnbc_data *)

max_retries == 3

\* OnAttemptError re-raising on the last attempt
OnAttemptError_Reraise(attempt) ==
    IF attempt + 1 = max_retries THEN "raise" ELSE "sleep"

\* What an except clause of the retry loop does on attempt number `attempt`
\* (counted from 0): return an empty frame on the last one, else fall
\* through to time.sleep.
OnAttemptError(attempt) ==
    IF attempt + 1 = max_retries THEN "return_empty" ELSE "sleep"

\* What one attempt does with the response r: "return" with a frame,
\* "return_empty", or "sleep".  A body that is not an object makes
\* data.get raise AttributeError, which the except Exception clause takes.
AttemptStep(r, attempt) ==
    IF r.kind \in {"transport", "http", "badjson"} THEN OnAttemptError(attempt)
    ELSE IF r.top # "dict" THEN OnAttemptError(attempt)
    ELSE IF HasPriceBars(r) THEN "return"
    ELSE "return_empty"

\* One pass of the loop body: requests.get and everything up to the return
\* or to the end of the except clause.
CnbcAttempt ==
    /\ prog = "CNBC" /\ pc = "request"
    /\ \E r \in ChartResponses :
         LET attempt == Len(outcomes)
             step == AttemptStep(r, attempt)
         IN  /\ requests' = requests + 1
             /\ resp' = r
             /\ outcomes' = Append(outcomes, OutcomeOf(r))
             /\ CASE step = "sleep" ->
                       /\ pc' = "sleep"
                       /\ df' = df
                  [] step = "return_empty" ->
                       /\ pc' = "fetched"
                       /\ df' = DataFrame(<<>>)
                  [] step = "return" ->
                       /\ pc' = "fetched"
                       /\ LET rows == ProcessBars(r.priceBars, 1, <<>>)
                          IN  IF rows = <<>> THEN df' = DataFrame(<<>>)
                              ELSE \E sorted \in SortValues(rows) :
                                       df' = DataFrame(sorted)
                  [] OTHER ->
                       \* an exception that leaves the function leaves __main__
                       /\ pc' = "exited"
                       /\ df' = df
             /\ exitStatus' = IF step \in {"sleep", "return_empty", "return"}
                              THEN exitStatus ELSE 1
    /\ UNCHANGED <<prog, table, sleeps, driver, quits, sel, puts, written>>
    /\ UNCHANGED storeVars

\* time.sleep(retry_delay), then the next pass of the loop
CnbcSleep ==
    /\ prog = "CNBC" /\ pc = "sleep"
    /\ sleeps' = sleeps + 1
    /\ pc' = IF Len(outcomes) < max_retries THEN "request" ELSE "fetched"
    /\ df' = IF Len(outcomes) < max_retries THEN df ELSE DataFrame(<<>>)
    /\ UNCHANGED <<prog, table, exitStatus, requests, outcomes, resp, driver,
                   quits, sel, puts, written>>
    /\ UNCHANGED storeVars

\* __main__ of CNBC.py up to the call of fetch_cnbc_data
CnbcMain ==
    /\ prog = "CNBC" /\ pc = "main"
    /\ IF table # "ok"
       THEN pc' = "exited" /\ exitStatus' = 1
       ELSE pc' = "request" /\ exitStatus' = exitStatus
    /\ UNCHANGED <<prog, table, requests, sleeps, outcomes, resp, driver,
                   quits, df, sel, puts, written>>
    /\ UNCHANGED storeVars

\* __main__ of CNBC.py after the fetch: the store call and the end of the run
CnbcStore ==
    /\ prog = "CNBC" /\ pc = "fetched"
    /\ IF df.k # "none" /\ ~IsEmpty(df)
       THEN LET w == store_data_in_dynamodb(df)
            IN  /\ puts' = w.puts
                /\ written' = IF w.raised THEN written ELSE w.count
                /\ exitStatus' = IF w.raised THEN 1 ELSE 0
                /\ store' = ApplyPuts(store, w.puts)
                /\ storeOnce' = store'
                /\ runs' = runs + 1
       ELSE /\ exitStatus' = 0
            /\ UNCHANGED <<puts, written, store, storeOnce, runs>>
    /\ pc' = "exited"
    /\ UNCHANGED <<prog, table, requests, sleeps, outcomes, resp, driver,
                   quits, df, sel>>

-----------------------------------------------------------------------------
(* CNBC_US10YTIP_History.py *)

\* fetch_cnbc_data of the History script: one request, no sort
HistFetch ==
    /\ prog = "HIST" /\ pc = "main"
    /\ \E r \in ChartResponses :
         /\ requests' = requests + 1
         /\ resp' = r
         /\ outcomes' = Append(outcomes, OutcomeOf(r))
         /\ df' = IF r.kind = "json" /\ r.top = "dict" /\ HasPriceBars(r)
                  THEN DataFrame(HistProcessBars(r.priceBars, 1, <<>>))
                  ELSE NoneFrame
    /\ pc' = "fetched"
    /\ UNCHANGED <<prog, table, exitStatus, sleeps, driver, quits, sel, puts,
                   written>>
    /\ UNCHANGED storeVars

HistStore ==
    /\ prog = "HIST" /\ pc = "fetched"
    /\ IF df.k # "none" /\ ~IsEmpty(df)
       THEN LET w == store_yield_data_in_dynamodb(df)
            IN  /\ puts' = w.puts
                /\ written' = IF w.raised THEN written ELSE w.count
                /\ exitStatus' = IF w.raised THEN 1 ELSE 0
                /\ store' = ApplyPuts(store, w.puts)
                /\ storeOnce' = store'
                /\ runs' = runs + 1
       ELSE /\ exitStatus' = 0
            /\ UNCHANGED <<puts, written, store, storeOnce, runs>>
    /\ pc' = "exited"
    /\ UNCHANGED <<prog, table, requests, sleeps, outcomes, resp, driver,
                   quits, df, sel>>

-----------------------------------------------------------------------------
(* CMESOFR.py: the strip-rate payload *)

D1 == <<"1970-01-02">>
D2 == <<"1970-01-03">>
T10 == <<"T10:00">>
T14 == <<"T14:00">>
SecZ == <<":00Z">>

Terms == {"1M", "3M", "6M", "1Y"}

Cand(term, timestamp, price) ==
    [term |-> term, timestamp |-> timestamp, price |-> price]

Rates(k, fix) == [k |-> k, fix |-> fix]

Day(date, overnight, avg30, avg90, avg180, index, rates) ==
    [date |-> date, overnight |-> overnight, average30day |-> avg30,
     average90day |-> avg90, average180day |-> avg180, index |-> index,
     rates |-> rates]

\* the price of the candidate at position i of an upstream list: 4.1, 4.2, ...
DigitSym(i) ==
    CASE i = 0 -> "0" [] i = 1 -> "1" [] i = 2 -> "2" [] i = 3 -> "3"
      [] i = 4 -> "4" [] i = 5 -> "5" [] i = 6 -> "6" [] i = 7 -> "7"
      [] i = 8 -> "8" [] OTHER -> "9"

PriceAt(i) == JStr(<<"4", ".", DigitSym(i)>>)

\* A well-formed day record for the date label d: two 1M candidates (the
\* 14:00 one first), one 3M candidate.
GoodFix(d) ==
    <<Cand(JStr(<<"1", "M">>), JStr(d \o T14 \o SecZ), PriceAt(1)),
      Cand(JStr(<<"1", "M">>), JStr(d \o T10 \o SecZ), PriceAt(2)),
      Cand(JStr(<<"3", "M">>), JStr(d \o T10 \o SecZ), PriceAt(3))>>

GoodDay(d) ==
    Day(JStr(d), JStr(<<"5", ".", "3">>), JStr(<<"5", ".", "1">>),
        JStr(<<"5", ".", "2">>), JNum(<<"5", ".", "2", "5">>),
        JStr(<<"1", ".", "1", "7">>), Rates("fix", GoodFix(d)))

\* The day records of the pipeline specification: the well-formed ones and
\* GoodDay(D1) with one field malformed.
PipelineDays ==
    {GoodDay(D1), GoodDay(D2),
     [GoodDay(D1) EXCEPT !.date = JNull],
     [GoodDay(D1) EXCEPT !.date = JStr(<<"soon">>)],
     [GoodDay(D1) EXCEPT !.overnight = JStr(<<"N", "/", "A">>)],
     [GoodDay(D1) EXCEPT !.average30day = JNull],
     [GoodDay(D1) EXCEPT !.index = JStr(<<"-">>)],
     [GoodDay(D1) EXCEPT !.rates = Rates("null", <<>>)],
     [GoodDay(D1) EXCEPT !.rates = Rates("missing", <<>>)],
     [GoodDay(D1) EXCEPT !.rates.fix[1].timestamp = JNull],
     [GoodDay(D1) EXCEPT !.rates.fix[2].price = JStr(<<"x">>)]}

\* The candidate lists of the selection specification: every list of up to
\* MaxCands candidates, the candidate at position i priced PriceAt(i).
SelectTerms == {JStr(<<"1", "M">>), JStr(<<"3", "M">>), JStr(<<"2", "Y">>)}

SelectTimestamps ==
    {JStr(D1 \o T10 \o SecZ), JStr(D1 \o T14 \o SecZ), JStr(D2 \o T10 \o SecZ),
     JStr(D2 \o T14 \o SecZ), JNull}

SelectFixes ==
    {[i \in 1..Len(f) |-> Cand(f[i][1], f[i][2], PriceAt(i))] :
        f \in BoundedSeq(SelectTerms \X SelectTimestamps, MaxCands)}

SelectDays ==
    {[GoodDay(D1) EXCEPT !.date = d, !.rates = Rates("fix", f)] :
        d \in {JStr(D1), JNull}, f \in SelectFixes}

\* The overnight fields of the overnight specification: the sentinels in
\* several spellings, an absent and a null field, and numerals, one of them
\* with more significant digits than a double carries.
LongNumeral ==
    <<"5", ".", "1", "2", "3", "4", "5", "6", "7", "8", "9", "0", "1", "2",
      "3", "4", "5", "6", "7", "8">>

OvernightVals ==
    {JMissing, JNull, JStr(<<"-">>), JStr(<<>>), JStr(<<"n", "/", "a">>),
     JStr(<<"N", "/", "A">>), JStr(<<"N", "o", "n", "e">>),
     JStr(<<"N", "O", "N", "E">>), JStr(<<"5", ".", "3">>),
     JNum(<<"5", ".", "3", "1">>), JStr(LongNumeral)}

OvernightDays ==
    {[GoodDay(d) EXCEPT !.overnight = o] : d \in {D1, D2}, o \in OvernightVals}

\* The payloads of the truncation specification: up to MaxRecords
\* well-formed day records, the record at position i with the overnight
\* rate 5.i, so that every item tells the record it derives from.
RecordAt(i, d) ==
    [GoodDay(d) EXCEPT !.overnight = JStr(<<"5", ".", DigitSym(i)>>)]

RecordLists ==
    {[i \in 1..Len(ds) |-> RecordAt(i, ds[i])] :
        ds \in BoundedSeq({D1, D2}, MaxRecords)}

StripPage(kind, days) == [kind |-> kind, days |-> days]

\* What the browser session yields: a wait that times out, text that is no
\* JSON, JSON without resultsStrip, or a payload of day records.
StripPages(days) ==
    {StripPage("timeout", <<>>), StripPage("badjson", <<>>),
     StripPage("nostrip", <<>>)}
    \cup {StripPage("strip", d) : d \in days}

-----------------------------------------------------------------------------
(* CMESOFR.py: normalization of one day record *)

NoneCell == [k |-> "none", x |-> NoNumber, v |-> <<>>]
FloatCell(x) == [k |-> "float", x |-> x, v |-> <<>>]
StrCell(s) == [k |-> "str", x |-> NoNumber, v |-> s]

\* a passthrough field: day_data.get(key)
CellOfGet(j) ==
    CASE IsNone(j) -> NoneCell
      [] j.k = "num" -> FloatCell(PyFloat(j.v))
      [] OTHER -> StrCell(j.v)

OvernightSentinels == {<<"-">>, <<"n", "/", "a">>, <<"n", "o", "n", "e">>, <<>>}

\* OvernightRate with a sentinel normalized to zero
OvernightRate_ZeroDefault(j) ==
    LET overnight_rate_str == StrOfGet(j, <<"N", "/", "A">>)
    IN  IF Lower(overnight_rate_str) \notin OvernightSentinels
           /\ PyFloat(overnight_rate_str).ok
        THEN FloatCell(PyFloat(overnight_rate_str))
        ELSE FloatCell(PyFloat(<<"0">>))

OvernightRate(j) ==
    LET overnight_rate_str == StrOfGet(j, <<"N", "/", "A">>)
    IN  IF Lower(overnight_rate_str) \notin OvernightSentinels
           /\ PyFloat(overnight_rate_str).ok
        THEN FloatCell(PyFloat(overnight_rate_str))
        ELSE NoneCell

\* term = rate_info_item.get('term'); if term: the non-empty string, else ""
TermOf(c) == IF c.term.k = "str" /\ c.term.v # <<>> THEN c.term.v ELSE <<>>

TermName(t) ==
    CASE t = <<"1", "M">> -> "1M" [] t = <<"3", "M">> -> "3M"
      [] t = <<"6", "M">> -> "6M" [] t = <<"1", "Y">> -> "1Y"
      [] OTHER -> "other"

\* rates_by_term[term]: the positions of the candidates of a term, in order
PositionsOf(fix, t) == SelectSeq([i \in 1..Len(fix) |-> i],
                                 LAMBDA i : TermOf(fix[i]) = t)

\* the keys of rates_by_term, in order of first appearance
RECURSIVE TermOrder(_, _, _)
TermOrder(fix, i, seen) ==
    IF i > Len(fix) THEN seen
    ELSE LET t == TermOf(fix[i])
         IN  TermOrder(fix, i + 1,
                 IF t = <<>> \/ \E k \in 1..Len(seen) : seen[k] = t
                 THEN seen ELSE Append(seen, t))

\* r.get('timestamp', '')
TimestampOf(c) == IF c.timestamp.k = "missing" THEN <<>> ELSE c.timestamp.v

\* The comprehension over L_rates_info raises when a timestamp is null
\* (None has no startswith) or when date_str is None (startswith(None)).
SelectionRaises(fix, L, date) ==
    /\ Len(L) # 1
    /\ \/ IsNone(date)
       \/ \E k \in 1..Len(L) : fix[L[k]].timestamp.k = "null"

\* SelectRate without the preference for the 10:00 fixing
SelectRate_NoT10(fix, L, date) ==
    IF Len(L) = 1 THEN L[1]
    ELSE LET on_date_rates ==
                 SelectSeq(L, LAMBDA i : StartsWith(TimestampOf(fix[i]), date.v))
         IN  IF on_date_rates # <<>> THEN on_date_rates[1] ELSE L[1]

\* SelectRate whose fallback prefers a 10:00 candidate of any day
SelectRate_T10Fallback(fix, L, date) ==
    IF Len(L) = 1 THEN L[1]
    ELSE LET on_date_rates ==
                 SelectSeq(L, LAMBDA i : StartsWith(TimestampOf(fix[i]), date.v))
             t10_rates ==
                 SelectSeq(on_date_rates,
                           LAMBDA i : Contains(TimestampOf(fix[i]), T10))
             any_t10 ==
                 SelectSeq(L, LAMBDA i : Contains(TimestampOf(fix[i]), T10))
         IN  IF on_date_rates # <<>>
             THEN IF t10_rates # <<>> THEN t10_rates[1] ELSE on_date_rates[1]
             ELSE IF any_t10 # <<>> THEN any_t10[1] ELSE L[1]

\* SelectRate whose same-day choice without a 10:00 fixing is the last one
SelectRate_LastSameDay(fix, L, date) ==
    IF Len(L) = 1 THEN L[1]
    ELSE LET on_date_rates ==
                 SelectSeq(L, LAMBDA i : StartsWith(TimestampOf(fix[i]), date.v))
             t10_rates ==
                 SelectSeq(on_date_rates,
                           LAMBDA i : Contains(TimestampOf(fix[i]), T10))
         IN  IF on_date_rates # <<>>
             THEN IF t10_rates # <<>> THEN t10_rates[1]
                  ELSE on_date_rates[Len(on_date_rates)]
             ELSE L[1]

\* The position in the day's list of the candidate selected among the
\* positions L (CMESOFR.py, selected_rate_info)
SelectRate(fix, L, date) ==
    IF Len(L) = 1 THEN L[1]
    ELSE LET on_date_rates ==
                 SelectSeq(L, LAMBDA i : StartsWith(TimestampOf(fix[i]), date.v))
             t10_rates ==
                 SelectSeq(on_date_rates,
                           LAMBDA i : Contains(TimestampOf(fix[i]), T10))
         IN  IF on_date_rates # <<>>
             THEN IF t10_rates # <<>> THEN t10_rates[1] ELSE on_date_rates[1]
             ELSE L[1]

\* float(selected_rate_info['price']) under except (ValueError, TypeError)
TermRate(c) ==
    IF c.price.k = "str" /\ PyFloat(c.price.v).ok
    THEN FloatCell(PyFloat(c.price.v))
    ELSE IF c.price.k = "num" THEN FloatCell(PyFloat(c.price.v))
    ELSE NoneCell

NoTermRates == [t \in Terms |-> NoneCell]
NoSelection == [t \in Terms |-> 0]

TermResult(raised, term_rates, selected) ==
    [raised |-> raised, term_rates |-> term_rates, selected |-> selected]

\* for term_key, L_rates_info in rates_by_term.items(): from key number k
RECURSIVE SelectTermRates(_, _, _, _, _)
SelectTermRates(fix, date, order, k, acc) ==
    IF k > Len(order) THEN acc
    ELSE LET term_key == TermName(order[k])
             L == PositionsOf(fix, order[k])
         IN  IF term_key \notin Terms
             THEN SelectTermRates(fix, date, order, k + 1, acc)
             ELSE IF SelectionRaises(fix, L, date)
             THEN TermResult(TRUE, acc.term_rates, acc.selected)
             ELSE LET chosen == SelectRate(fix, L, date)
                  IN  SelectTermRates(fix, date, order, k + 1,
                          TermResult(FALSE,
                              [acc.term_rates EXCEPT ![term_key] = TermRate(fix[chosen])],
                              [acc.selected EXCEPT ![term_key] = chosen]))

\* 'rates' in day_data and 'sofrRatesFixing' in day_data['rates']:
\* a null rates block raises TypeError
DayTermRates(day) ==
    CASE day.rates.k = "null" -> TermResult(TRUE, NoTermRates, NoSelection)
      [] day.rates.k = "fix" ->
            SelectTermRates(day.rates.fix, day.date,
                            TermOrder(day.rates.fix, 1, <<>>), 1,
                            TermResult(FALSE, NoTermRates, NoSelection))
      [] OTHER -> TermResult(FALSE, NoTermRates, NoSelection)

\* The body of the loop over daily_strips for one day record: the dict
\* appended to processed_data, or raised = TRUE.
NormalizeDay(day) ==
    LET t == DayTermRates(day)
    IN  [raised |-> t.raised,
         selected |-> t.selected,
         row |-> [Date |-> day.date,
                  Overnight |-> OvernightRate(day.overnight),
                  T1M |-> t.term_rates["1M"], T3M |-> t.term_rates["3M"],
                  T6M |-> t.term_rates["6M"], T1Y |-> t.term_rates["1Y"],
                  Avg30 |-> CellOfGet(day.average30day),
                  Avg90 |-> CellOfGet(day.average90day),
                  Avg180 |-> CellOfGet(day.average180day),
                  Index |-> CellOfGet(day.index)]]

-----------------------------------------------------------------------------
(* CMESOFR.py: the loop over the day records and the DataFrame *)

MaxDayRecords == 5

StripResult(raised, rows, sels) == [raised |-> raised, rows |-> rows, sels |-> sels]

\* NormalizeDays without the limit of five day records
RECURSIVE NormalizeDays_NoLimit(_, _, _)
NormalizeDays_NoLimit(daily_strips, i, acc) ==
    IF i > Len(daily_strips) THEN acc
    ELSE LET n == NormalizeDay(daily_strips[i])
         IN  IF n.raised
             THEN StripResult(TRUE, acc.rows, Append(acc.sels, n.selected))
             ELSE NormalizeDays_NoLimit(daily_strips, i + 1,
                      StripResult(FALSE, Append(acc.rows, n.row),
                                  Append(acc.sels, n.selected)))

\* for i, day_data in enumerate(daily_strips): if i >= 5: break
\* (i counts from 1 here).  An exception in one day record leaves the loop.
RECURSIVE NormalizeDays(_, _, _)
NormalizeDays(daily_strips, i, acc) ==
    IF i > Len(daily_strips) \/ i - 1 >= MaxDayRecords THEN acc
    ELSE LET n == NormalizeDay(daily_strips[i])
         IN  IF n.raised
             THEN StripResult(TRUE, acc.rows, Append(acc.sels, n.selected))
             ELSE NormalizeDays(daily_strips, i + 1,
                      StripResult(FALSE, Append(acc.rows, n.row),
                                  Append(acc.sels, n.selected)))

\* pd.to_datetime of one date label: the day number since the epoch; None
\* gives NaT; any other text raises.
ParseDate(j) ==
    CASE IsNone(j) -> [ok |-> TRUE, k |-> "nat", ord |-> 0]
      [] j.v = D1 -> [ok |-> TRUE, k |-> "date", ord |-> 1]
      [] j.v = D2 -> [ok |-> TRUE, k |-> "date", ord |-> 2]
      [] OTHER -> [ok |-> FALSE, k |-> "nat", ord |-> 0]

\* df['Date'] = pd.to_datetime(df['Date'])
ToDatetimeRaises(rows) == \E i \in 1..Len(rows) : ~ParseDate(rows[i].Date).ok

ToDatetime(rows) ==
    [i \in 1..Len(rows) |-> [rows[i] EXCEPT !.Date = ParseDate(rows[i].Date)]]

\* The try block of fetch_sofr_strip_rates_with_selenium after driver.get:
\* the frame the function returns for a page.
StripFrame(page) ==
    IF page.kind # "strip" THEN DataFrame(<<>>)
    ELSE LET n == NormalizeDays(page.days, 1, StripResult(FALSE, <<>>, <<>>))
         IN  IF n.raised \/ n.rows = <<>> \/ ToDatetimeRaises(n.rows)
             THEN DataFrame(<<>>)
             ELSE DataFrame(ToDatetime(n.rows))

StripSelections(page) ==
    IF page.kind # "strip" THEN <<>>
    ELSE NormalizeDays(page.days, 1, StripResult(FALSE, <<>>, <<>>)).sels

-----------------------------------------------------------------------------
(* CMESOFR.py: Store Writer *)

MsPerDay == 86400000

\* convert_date_to_utc_timestamp_ms
convert_date_to_utc_timestamp_ms(date_obj) == date_obj.ord * MsPerDay

MetricMapping ==
    <<[col |-> "Overnight", metricId |-> "SOFR_Overnight", unit |-> "%"],
      [col |-> "T1M", metricId |-> "SOFR_1M_Term", unit |-> "%"],
      [col |-> "T3M", metricId |-> "SOFR_3M_Term", unit |-> "%"],
      [col |-> "T6M", metricId |-> "SOFR_6M_Term", unit |-> "%"],
      [col |-> "T1Y", metricId |-> "SOFR_1Y_Term", unit |-> "%"],
      [col |-> "Avg30", metricId |-> "SOFR_30D_Avg", unit |-> "%"],
      [col |-> "Avg90", metricId |-> "SOFR_90D_Avg", unit |-> "%"],
      [col |-> "Avg180", metricId |-> "SOFR_180D_Avg", unit |-> "%"],
      [col |-> "Index", metricId |-> "SOFR_Index", unit |-> "none"]>>

\* pd.isna(row[column_name])
CellIsNa(c) == c.k = "none" \/ (c.k = "float" /\ IsNaN(c.x))

\* str(row[column_name])
CellStr(c) == IF c.k = "float" THEN FloatStr(c.x) ELSE c.v

\* for column_name, metric_info in metric_mapping.items(): from column m
RECURSIVE StoreSofrColumns(_, _, _)
StoreSofrColumns(row, m, items) ==
    IF m > Len(MetricMapping) THEN items
    ELSE LET cell == row[MetricMapping[m].col]
             value == PyDecimal(CellStr(cell))
         IN  StoreSofrColumns(row, m + 1,
                 IF ~CellIsNa(cell) /\ value.ok
                 THEN Append(items,
                          Item(MetricMapping[m].metricId,
                               convert_date_to_utc_timestamp_ms(row.Date),
                               value, row.Date.ord, MetricMapping[m].unit))
                 ELSE items)

\* for index, row in df.iterrows(): a row whose date is NaT is skipped
RECURSIVE StoreSofrRows(_, _, _)
StoreSofrRows(rows, i, items) ==
    IF i > Len(rows) THEN items
    ELSE StoreSofrRows(rows, i + 1,
             IF rows[i].Date.k = "nat" THEN items
             ELSE StoreSofrColumns(rows[i], 1, items))

store_sofr_data_in_dynamodb(d, tbl) ==
    IF IsEmpty(d) \/ tbl # "ok" THEN WriterResult(FALSE, <<>>, 0)
    ELSE LET items == StoreSofrRows(d.rows, 1, <<>>)
         IN  WriterResult(FALSE, items, Len(items))

-----------------------------------------------------------------------------
(* Module-level store initialization *)

\* CMESOFR.py: a failure of boto3.resource / Table is caught, table = None
SofrModuleInit ==
    /\ prog = "CMESOFR" /\ pc = "load"
    /\ \E ok \in BOOLEAN : table' = IF ok THEN "ok" ELSE "none"
    /\ pc' = "main"
    /\ UNCHANGED <<prog, exitStatus, requests, sleeps, outcomes, resp, driver,
                   quits, df, sel, puts, written>>
    /\ UNCHANGED storeVars

\* CNBC.py: the except clause re-raises; the import fails, the process ends
CnbcModuleInit ==
    /\ prog = "CNBC" /\ pc = "load"
    /\ \E ok \in BOOLEAN :
         IF ok THEN table' = "ok" /\ pc' = "main" /\ exitStatus' = exitStatus
         ELSE table' = table /\ pc' = "exited" /\ exitStatus' = 1
    /\ UNCHANGED <<prog, requests, sleeps, outcomes, resp, driver, quits, df,
                   sel, puts, written>>
    /\ UNCHANGED storeVars

\* HistModuleInit with the failure caught and the run continued
HistModuleInit_Caught ==
    /\ prog = "HIST" /\ pc = "load"
    /\ \E ok \in BOOLEAN : table' = IF ok THEN "ok" ELSE "none"
    /\ pc' = "main"
    /\ UNCHANGED <<prog, exitStatus, requests, sleeps, outcomes, resp, driver,
                   quits, df, sel, puts, written>>
    /\ UNCHANGED storeVars

\* CNBC_US10YTIP_History.py: no try; an exception ends the process
HistModuleInit ==
    /\ prog = "HIST" /\ pc = "load"
    /\ \E ok \in BOOLEAN :
         IF ok THEN table' = "ok" /\ pc' = "main" /\ exitStatus' = exitStatus
         ELSE table' = table /\ pc' = "exited" /\ exitStatus' = 1
    /\ UNCHANGED <<prog, requests, sleeps, outcomes, resp, driver, quits, df,
                   sel, puts, written>>
    /\ UNCHANGED storeVars

-----------------------------------------------------------------------------
(* CMESOFR.py: fetch_sofr_strip_rates_with_selenium and __main__ *)

\* WebDriver setup: on failure the function returns an empty frame
SofrSetupDriver ==
    /\ prog = "CMESOFR" /\ pc = "main"
    /\ \E ok \in BOOLEAN :
         IF ok THEN driver' = "open" /\ pc' = "navigate" /\ df' = df
         ELSE driver' = driver /\ pc' = "fetched" /\ df' = DataFrame(<<>>)
    /\ UNCHANGED <<prog, table, exitStatus, requests, sleeps, outcomes, resp,
                   quits, sel, puts, written>>
    /\ UNCHANGED storeVars

\* The try block: driver.get, the wait, json.loads and the normalization
SofrNavigate(pages) ==
    /\ prog = "CMESOFR" /\ pc = "navigate"
    /\ \E page \in pages :
         /\ resp' = page
         /\ outcomes' = Append(outcomes, page.kind)
         /\ df' = StripFrame(page)
         /\ sel' = StripSelections(page)
    /\ requests' = requests + 1
    /\ pc' = "finally"
    /\ UNCHANGED <<prog, table, exitStatus, sleeps, driver, quits, puts,
                   written>>
    /\ UNCHANGED storeVars

\* SofrTeardown with the session closed on the success path only
SofrTeardown_OnSuccessOnly ==
    /\ prog = "CMESOFR" /\ pc = "finally"
    /\ IF driver = "open" /\ ~IsEmpty(df)
       THEN driver' = "closed" /\ quits' = quits + 1
       ELSE UNCHANGED <<driver, quits>>
    /\ pc' = "fetched"
    /\ UNCHANGED <<prog, table, exitStatus, requests, sleeps, outcomes, resp,
                   df, sel, puts, written>>
    /\ UNCHANGED storeVars

\* finally: driver.quit(); return extracted_data_df
SofrTeardown ==
    /\ prog = "CMESOFR" /\ pc = "finally"
    /\ IF driver = "open"
       THEN driver' = "closed" /\ quits' = quits + 1
       ELSE UNCHANGED <<driver, quits>>
    /\ pc' = "fetched"
    /\ UNCHANGED <<prog, table, exitStatus, requests, sleeps, outcomes, resp,
                   df, sel, puts, written>>
    /\ UNCHANGED storeVars

\* __main__ after the fetch: store when the frame is not empty and the
\* table was initialized; the script then ends normally
SofrStore ==
    /\ prog = "CMESOFR" /\ pc = "fetched"
    /\ IF ~IsEmpty(df) /\ table = "ok"
       THEN LET w == store_sofr_data_in_dynamodb(df, table)
            IN  /\ puts' = w.puts /\ written' = w.count
                /\ store' = ApplyPuts(store, w.puts)
                /\ storeOnce' = store'
                /\ runs' = runs + 1
       ELSE UNCHANGED <<puts, written, store, storeOnce, runs>>
    /\ exitStatus' = 0
    /\ pc' = "exited"
    /\ UNCHANGED <<prog, table, requests, sleeps, outcomes, resp, driver,
                   quits, df, sel>>

-----------------------------------------------------------------------------
(* The Store Writer run a second time on the same frame *)

WriterOf(p) ==
    CASE p = "CNBC" -> store_data_in_dynamodb(df)
      [] p = "HIST" -> store_yield_data_in_dynamodb(df)
      [] OTHER -> store_sofr_data_in_dynamodb(df, table)

WriterAgain ==
    /\ pc = "exited" /\ runs = 1
    /\ store' = ApplyPuts(store, WriterOf(prog).puts)
    /\ runs' = runs + 1
    /\ UNCHANGED <<prog, pc, table, exitStatus, requests, sleeps, outcomes,
                   resp, driver, quits, df, sel, puts, written, storeOnce>>

-----------------------------------------------------------------------------
(* Specifications *)

\* What the store table may hold before a run: nothing, or items of earlier
\* runs, some under keys the run writes again and some under other keys.
StaleItems ==
    {[metricId |-> m, timestamp |-> t, value |-> PyDecimal(<<"9", ".", "9">>),
      sourceDate |-> 0, unit |-> UNIT_FOR_METRIC] :
        m \in {CNBC_METRIC_ID, HIST_METRIC_ID, "SOFR_Overnight"},
        t \in {0, 1000, MsPerDay}}

InitialStores == {{}, StaleItems}

PipelinePages == StripPages(BoundedSeq(PipelineDays, MaxDays))

SelectPages == StripPages({<<d>> : d \in SelectDays})

InitWith(progs, stores) ==
    /\ prog \in progs
    /\ pc = "load"
    /\ table = "unset"
    /\ exitStatus = -1
    /\ requests = 0
    /\ sleeps = 0
    /\ outcomes = <<>>
    /\ resp = NoResp
    /\ driver = "none"
    /\ quits = 0
    /\ df = NoneFrame
    /\ sel = <<>>
    /\ puts = <<>>
    /\ written = -1
    /\ store \in stores
    /\ storeOnce = store
    /\ runs = 0

InitFor(progs) == InitWith(progs, {{}})

Init == InitFor({"CMESOFR", "CNBC", "HIST"})

Next ==
    \/ SofrModuleInit
    \/ SofrSetupDriver
    \/ SofrNavigate(PipelinePages)
    \/ SofrTeardown
    \/ SofrStore
    \/ CnbcModuleInit
    \/ CnbcMain
    \/ CnbcAttempt
    \/ CnbcSleep
    \/ CnbcStore
    \/ HistModuleInit
    \/ HistFetch
    \/ HistStore

Spec == Init /\ [][Next]_vars

\* The strip-rate pipeline on one day record with every candidate list
InitSelect == InitFor({"CMESOFR"})

NextSelect ==
    \/ SofrModuleInit
    \/ SofrSetupDriver
    \/ SofrNavigate(SelectPages)
    \/ SofrTeardown
    \/ SofrStore

SpecSelect == InitSelect /\ [][NextSelect]_vars

\* The strip-rate pipeline on well-formed day records whose overnight field
\* ranges over OvernightVals
OvernightPages == StripPages(BoundedSeq(OvernightDays, MaxDays))

InitOvernight == InitFor({"CMESOFR"})

NextOvernight ==
    \/ SofrModuleInit
    \/ SofrSetupDriver
    \/ SofrNavigate(OvernightPages)
    \/ SofrTeardown
    \/ SofrStore

SpecOvernight == InitOvernight /\ [][NextOvernight]_vars

\* The strip-rate pipeline on payloads of up to MaxRecords day records
RecordPages == StripPages(RecordLists)

InitRecords == InitFor({"CMESOFR"})

NextRecords ==
    \/ SofrModuleInit
    \/ SofrSetupDriver
    \/ SofrNavigate(RecordPages)
    \/ SofrTeardown
    \/ SofrStore

SpecRecords == InitRecords /\ [][NextRecords]_vars

\* The three pipelines against a store that may hold earlier items, the
\* Store Writer then run once more on the same frame
InitTwice == InitWith({"CMESOFR", "CNBC", "HIST"}, InitialStores)

NextTwice ==
    \/ SofrModuleInit
    \/ SofrSetupDriver
    \/ SofrNavigate(PipelinePages)
    \/ SofrTeardown
    \/ SofrStore
    \/ CnbcModuleInit
    \/ CnbcMain
    \/ CnbcAttempt
    \/ CnbcSleep
    \/ CnbcStore
    \/ HistModuleInit
    \/ HistFetch
    \/ HistStore
    \/ WriterAgain

SpecTwice == InitTwice /\ [][NextTwice]_vars

-----------------------------------------------------------------------------
(* Claims *)

\* the store handle could not be established at process start
StoreUnavailable == table = "none" \/ (pc # "load" /\ table = "unset")

FetchReturned == pc \in {"fetched", "exited"}

\* C1 (as stated): in every pipeline, when the store handle could not be
\* established at process start, no upstream fetch is ever issued.
C1_NoFetchWithoutStore == StoreUnavailable => requests = 0

\* C1 (amended): in CNBC.py and CNBC_US10YTIP_History.py a store handle that
\* cannot be established ends the process at once, with a non-zero status
\* and no fetch; in CMESOFR.py the failure is caught, the run goes on (the
\* fetch may be issued) and only the store write is skipped: nothing is put
\* and the run ends with status zero.
C1_FatalExceptStripPipeline ==
    StoreUnavailable =>
        /\ prog \in {"CNBC", "HIST"} =>
               requests = 0 /\ pc = "exited" /\ exitStatus = 1
        /\ prog = "CMESOFR" =>
               puts = <<>> /\ written = -1 /\ exitStatus \in {-1, 0}

C1_Witness == StoreUnavailable /\ prog = "HIST" /\ pc = "exited"

\* C2: the process ends with a non-zero status only when the store handle
\* could not be established at startup.
C2_NonZeroOnlyWithoutStore == exitStatus \notin {-1, 0} => StoreUnavailable

\* the rows of the frame whose value decimal.Decimal accepts
CoercibleRows(d) ==
    {i \in 1..Len(d.rows) : PyDecimal(FloatStr(d.rows[i].Value)).ok}

\* C3: given a non-empty frame, the Store Writer of each chart pipeline
\* returns without raising, puts one item per row whose value coerces to a
\* decimal, and returns the number of items it put; the strip-rate writer
\* returns the number of items it put.
C3_WriterPutsEveryPoint ==
    (pc = "exited" /\ df.k = "df" /\ ~IsEmpty(df) /\ table = "ok") =>
        /\ exitStatus = 0
        /\ written = Len(puts)
        /\ prog \in {"CNBC", "HIST"} => Len(puts) = Cardinality(CoercibleRows(df))

RetryableFailures == {"transport", "http", "badjson"}

AllAttemptsFailed ==
    /\ prog = "CNBC"
    /\ Len(outcomes) = max_retries
    /\ \A i \in 1..Len(outcomes) : outcomes[i] \in RetryableFailures

\* C4: when every one of the 3 attempts of CNBC.fetch_cnbc_data fails with a
\* transport error, a non-2xx status or a JSON-decode failure, the function
\* returns an empty frame and no exception leaves it.
C4_ExhaustedRetriesReturnEmpty ==
    AllAttemptsFailed =>
        /\ FetchReturned
        /\ df = DataFrame(<<>>)
        /\ exitStatus \in {-1, 0}
        /\ requests = max_retries

C4_Witness == AllAttemptsFailed /\ pc = "fetched" /\ exitStatus = -1

\* C5: after a response with valid JSON that lacks data.chartData.priceBars
\* (whatever its top-level shape) the fetcher returns an empty result at
\* once: that attempt is the last request and no delay follows it.
C5_ShapeMismatchNotRetried ==
    prog \in {"CNBC", "HIST"} =>
        \A i \in 1..Len(outcomes) :
            outcomes[i] \in {"notdict", "nopath"} =>
                /\ i = Len(outcomes)
                /\ FetchReturned
                /\ sleeps = i - 1
                /\ IsEmpty(df)

\* C6: a malformed field in one day record suppresses only that field: each
\* of the first 5 day records whose date label parses has its row in the
\* frame handed to the Store Writer, with its overnight and passthrough
\* fields.
C6_MalformedFieldSuppressesOnlyItself ==
    (prog = "CMESOFR" /\ FetchReturned /\ resp.kind = "strip") =>
        \A i \in 1..Len(resp.days) :
            (i <= MaxDayRecords /\ ParseDate(resp.days[i].date).k = "date") =>
                \E r \in 1..Len(df.rows) :
                    /\ df.rows[r].Date = ParseDate(resp.days[i].date)
                    /\ df.rows[r].Overnight = OvernightRate(resp.days[i].overnight)
                    /\ df.rows[r].Avg30 = CellOfGet(resp.days[i].average30day)
                    /\ df.rows[r].Index = CellOfGet(resp.days[i].index)

\* a bar whose close field is present and reads as a finite number
CloseIsNumber(bar) ==
    /\ bar.close.k \in {"str", "num"}
    /\ PyFloat(RemoveSym(bar.close.v, "%")).kind = "num"

\* C7: an item is written only for a source field that is present and
\* coerces to a number: every item has a numeric value, and every item of a
\* chart pipeline comes from a bar whose close is present and numeric and
\* carries that number.
C7_ItemsOnlyFromNumericFields ==
    \A n \in 1..Len(puts) :
        /\ puts[n].value.kind = "num"
        /\ prog \in {"CNBC", "HIST"} =>
               \E b \in 1..Len(resp.priceBars) :
                   /\ CloseIsNumber(resp.priceBars[b])
                   /\ puts[n].value = PyFloat(RemoveSym(resp.priceBars[b].close.v, "%"))

\* C8: in both chart pipelines the rows handed to the Store Writer are in
\* ascending order of timestamp, rows of equal timestamp in source order.
C8_RowsSortedStable ==
    (prog \in {"CNBC", "HIST"} /\ FetchReturned /\ df.k = "df") =>
        \A i, j \in 1..Len(df.rows) :
            i < j =>
                /\ TimeLeq(df.rows[i].DateTime, df.rows[j].DateTime)
                /\ df.rows[i].DateTime = df.rows[j].DateTime =>
                       df.rows[i].bar < df.rows[j].bar

\* The day records the normalizer went through, with the selections made
DaysSeen == 1..Len(sel)

TermText(t) ==
    CASE t = "1M" -> <<"1", "M">> [] t = "3M" -> <<"3", "M">>
      [] t = "6M" -> <<"6", "M">> [] t = "1Y" -> <<"1", "Y">>

\* the positions, in the list of day i, of the candidates of term t
CandidatesOf(i, t) ==
    {k \in 1..Len(resp.days[i].rates.fix) :
        resp.days[i].rates.fix[k].term = JStr(TermText(t))}

HasLabel(i) == resp.days[i].date.k = "str"

HasTimestamp(i, k) == resp.days[i].rates.fix[k].timestamp.k = "str"

SameDay(i, k) ==
    /\ HasLabel(i) /\ HasTimestamp(i, k)
    /\ StartsWith(resp.days[i].rates.fix[k].timestamp.v, resp.days[i].date.v)

AtT10(i, k) ==
    /\ HasTimestamp(i, k)
    /\ Contains(resp.days[i].rates.fix[k].timestamp.v, T10)

\* every candidate of day i carries a timestamp text
AllTimestamped(i) ==
    \A k \in 1..Len(resp.days[i].rates.fix) : HasTimestamp(i, k)

\* C9: when a recognized term has two or more candidates on a day and one
\* of them is a same-day candidate containing "T10:00", the candidate
\* selected for the term is a same-day candidate containing "T10:00",
\* wherever it stands in the list; with every timestamp present the
\* selection is made.
C9_SameDayT10Selected ==
    (prog = "CMESOFR" /\ resp.kind = "strip") =>
        \A i \in DaysSeen : \A t \in Terms :
            (/\ resp.days[i].rates.k = "fix"
             /\ Cardinality(CandidatesOf(i, t)) >= 2
             /\ \E k \in CandidatesOf(i, t) : SameDay(i, k) /\ AtT10(i, k)) =>
                /\ sel[i][t] # 0 =>
                       /\ sel[i][t] \in CandidatesOf(i, t)
                       /\ SameDay(i, sel[i][t])
                       /\ AtT10(i, sel[i][t])
                /\ AllTimestamped(i) => sel[i][t] # 0

\* a list where the 10:00 same-day candidate is not the first of its term
C9_Witness ==
    /\ prog = "CMESOFR" /\ resp.kind = "strip" /\ Len(sel) = 1
    /\ resp.days[1].rates.k = "fix"
    /\ Cardinality(CandidatesOf(1, "1M")) >= 2
    /\ sel[1]["1M"] # 0
    /\ SameDay(1, sel[1]["1M"]) /\ AtT10(1, sel[1]["1M"])
    /\ \E k \in CandidatesOf(1, "1M") : k < sel[1]["1M"] /\ SameDay(1, k)

\* C10: when a recognized term has two or more candidates on a day, all
\* with a timestamp and none starting with the day's date label, the first
\* candidate of the term in upstream order is selected, also when a later
\* one contains "T10:00".
C10_FallbackSelectsFirst ==
    (prog = "CMESOFR" /\ resp.kind = "strip") =>
        \A i \in DaysSeen : \A t \in Terms :
            (/\ resp.days[i].rates.k = "fix"
             /\ HasLabel(i)
             /\ Cardinality(CandidatesOf(i, t)) >= 2
             /\ \A k \in CandidatesOf(i, t) : HasTimestamp(i, k) /\ ~SameDay(i, k)) =>
                /\ sel[i][t] # 0 =>
                       /\ sel[i][t] \in CandidatesOf(i, t)
                       /\ \A k \in CandidatesOf(i, t) : sel[i][t] <= k
                /\ AllTimestamped(i) => sel[i][t] # 0

\* the first candidate is selected although a later one is a 10:00 fixing
C10_Witness ==
    /\ prog = "CMESOFR" /\ resp.kind = "strip" /\ Len(sel) = 1
    /\ resp.days[1].rates.k = "fix" /\ HasLabel(1)
    /\ Cardinality(CandidatesOf(1, "1M")) >= 2
    /\ \A k \in CandidatesOf(1, "1M") : HasTimestamp(1, k) /\ ~SameDay(1, k)
    /\ sel[1]["1M"] # 0
    /\ ~AtT10(1, sel[1]["1M"])
    /\ \E k \in CandidatesOf(1, "1M") : k > sel[1]["1M"] /\ AtT10(1, k)

\* the frame column and the metric of a recognized term
TermColumn(t) ==
    CASE t = "1M" -> "T1M" [] t = "3M" -> "T3M" [] t = "6M" -> "T6M"
      [] t = "1Y" -> "T1Y"

TermMetric(t) ==
    MetricMapping[CHOOSE m \in 1..Len(MetricMapping) :
                      MetricMapping[m].col = TermColumn(t)].metricId

\* day record i was normalized to row i of the frame the fetcher returned
Processed(i) == FetchReturned /\ df.k = "df" /\ i <= Len(df.rows)

SameDayCandidates(i, t) == {k \in CandidatesOf(i, t) : SameDay(i, k)}

\* C11: for every processed day and every recognized term with at least one
\* candidate, one candidate is selected, it is a member of that day's list
\* for that term, and the term value of the day's row is the price of that
\* candidate alone; at most one item per day and term is put, carrying that
\* price; when same-day candidates exist and none contains "T10:00", the
\* selected one is the first same-day candidate in upstream order.
C11_OneCandidatePerDayAndTerm ==
    (prog = "CMESOFR" /\ resp.kind = "strip") =>
        \A i \in DaysSeen : \A t \in Terms :
            (/\ Processed(i)
             /\ resp.days[i].rates.k = "fix"
             /\ CandidatesOf(i, t) # {}) =>
                LET chosen == sel[i][t]
                    price == resp.days[i].rates.fix[chosen].price
                    items == {n \in 1..Len(puts) : puts[n].metricId = TermMetric(t)}
                IN  /\ chosen \in CandidatesOf(i, t)
                    /\ df.rows[i][TermColumn(t)] = FloatCell(PyFloat(price.v))
                    /\ Cardinality(items) <= Len(df.rows)
                    /\ \A n \in items : puts[n].value = PyDecimal(price.v)
                    /\ (pc = "exited" /\ table = "ok" /\ df.rows[i].Date.k = "date")
                           => items # {}
                    /\ (/\ SameDayCandidates(i, t) # {}
                        /\ \A k \in SameDayCandidates(i, t) : ~AtT10(i, k)) =>
                           /\ chosen \in SameDayCandidates(i, t)
                           /\ \A k \in SameDayCandidates(i, t) : chosen <= k

\* two same-day candidates, neither a 10:00 fixing, behind a candidate of
\* another day: the first same-day one is selected and its price is put
C11_Witness ==
    /\ prog = "CMESOFR" /\ resp.kind = "strip" /\ pc = "exited"
    /\ Processed(1) /\ resp.days[1].rates.k = "fix"
    /\ Cardinality(SameDayCandidates(1, "1M")) >= 2
    /\ \A k \in SameDayCandidates(1, "1M") : ~AtT10(1, k)
    /\ \E k \in CandidatesOf(1, "1M") : k < sel[1]["1M"]
    /\ \E n \in 1..Len(puts) :
           /\ puts[n].metricId = TermMetric("1M")
           /\ puts[n].value = PyDecimal(resp.days[1].rates.fix[sel[1]["1M"]].price.v)

\* the overnight field is missing, null, or one of the sentinel texts
\* "-", "n/a", "none", "" in any letter case
OvernightAbsent(j) ==
    \/ j.k \in {"missing", "null"}
    \/ j.k = "str" /\ Lower(j.v) \in {<<"-">>, <<"n", "/", "a">>,
                                       <<"n", "o", "n", "e">>, <<>>}

\* the day records that were normalized and carry the date label d
DaysDated(d) ==
    {i \in 1..Len(resp.days) : i <= MaxDayRecords /\ resp.days[i].date = JStr(d)}

\* the items put for a metric at the timestamp of the date label d
ItemsAt(metricId, d) ==
    {n \in 1..Len(puts) :
        /\ puts[n].metricId = metricId
        /\ puts[n].timestamp =
               convert_date_to_utc_timestamp_ms(ParseDate(JStr(d)))}

\* C12: a day whose overnight field is a sentinel ("-", "n/a", "none", ""
\* in any letter case), missing or null gets no SOFR_Overnight item, while
\* the other metrics of that day are still written: per date, the
\* SOFR_Overnight items are as many as the days with a usable overnight
\* field, and every other metric has one item per day.
C12_SentinelOvernightAbsent ==
    (prog = "CMESOFR" /\ pc = "exited" /\ table = "ok" /\ resp.kind = "strip") =>
        \A d \in {D1, D2} :
            /\ Cardinality(ItemsAt("SOFR_Overnight", d)) =
                   Cardinality({i \in DaysDated(d) :
                                   ~OvernightAbsent(resp.days[i].overnight)})
            /\ \A m \in 2..Len(MetricMapping) :
                   MetricMapping[m].col \notin {"T6M", "T1Y"} =>
                       Cardinality(ItemsAt(MetricMapping[m].metricId, d)) =
                           Cardinality(DaysDated(d))

\* a day with the overnight text "N/A" beside a day with a usable one: the
\* first has its averages written and no overnight item
C12_Witness ==
    /\ prog = "CMESOFR" /\ pc = "exited" /\ table = "ok" /\ resp.kind = "strip"
    /\ Len(resp.days) = 2
    /\ resp.days[1].date = JStr(D1) /\ resp.days[2].date = JStr(D2)
    /\ resp.days[1].overnight = JStr(<<"N", "/", "A">>)
    /\ ~OvernightAbsent(resp.days[2].overnight)
    /\ ItemsAt("SOFR_Overnight", D1) = {}
    /\ ItemsAt("SOFR_30D_Avg", D1) # {}
    /\ ItemsAt("SOFR_Overnight", D2) # {}

Min(a, b) == IF a <= b THEN a ELSE b

\* item n is the overnight item of day record i of the payload
OvernightItemOf(n, i) ==
    /\ puts[n].metricId = "SOFR_Overnight"
    /\ puts[n].value = PyDecimal(resp.days[i].overnight.v)
    /\ puts[n].timestamp =
           convert_date_to_utc_timestamp_ms(ParseDate(resp.days[i].date))

\* C13: of a payload of n day records only the first min(n, 5) are
\* normalized: the frame has min(n, 5) rows, no item derives from the sixth
\* or a later record, every item put derives from one of the first five,
\* and each of the first five has its item.
C13_OnlyFirstFiveDays ==
    (prog = "CMESOFR" /\ FetchReturned /\ resp.kind = "strip") =>
        LET kept == Min(Len(resp.days), 5)
        IN  /\ Len(df.rows) = kept
            /\ Len(sel) = kept
            /\ \A n \in 1..Len(puts) :
                   /\ Cardinality({k \in 1..Len(puts) :
                                      puts[k].metricId = puts[n].metricId}) <= kept
                   /\ puts[n].metricId = "SOFR_Overnight" =>
                          /\ \E i \in 1..kept : OvernightItemOf(n, i)
                          /\ \A i \in (kept + 1)..Len(resp.days) :
                                 puts[n].value # PyDecimal(resp.days[i].overnight.v)
            /\ (pc = "exited" /\ table = "ok") =>
                   \A i \in 1..kept : \E n \in 1..Len(puts) : OvernightItemOf(n, i)

\* a payload of more than five day records was stored
C13_Witness ==
    /\ prog = "CMESOFR" /\ pc = "exited" /\ table = "ok" /\ resp.kind = "strip"
    /\ Len(resp.days) > 5
    /\ Len(df.rows) = 5
    /\ \E n \in 1..Len(puts) : OvernightItemOf(n, 5)

\* the bars of the response the returned frame was built from
BarsProcessed ==
    /\ prog \in {"CNBC", "HIST"} /\ FetchReturned /\ df.k = "df"
    /\ outcomes # <<>> /\ outcomes[Len(outcomes)] = "bars"

\* C14: a bar produces a point if and only if its tradeTimeinMills is
\* present and its close is present and, with any percent sign removed,
\* parses as a number; the bars after a skipped one are still processed.
C14_PointIffTimeAndClose ==
    BarsProcessed =>
        \A b \in 1..Len(resp.priceBars) :
            (\E r \in 1..Len(df.rows) : df.rows[r].bar = b)
            <=> (/\ ~IsNone(resp.priceBars[b].tradeTimeinMills)
                 /\ resp.priceBars[b].close.k \in {"str", "num"}
                 /\ PyFloat(RemoveSym(resp.priceBars[b].close.v, "%")).ok)

\* C15: running a Store Writer twice in succession on the same sequence of
\* points leaves the store, a map from (metricId, timestamp) to item with
\* last-write-wins puts, as one run left it, whatever it held before.
C15_WriterIdempotent == runs = 2 => store = storeOnce

\* the second run rewrote items over a store that held an earlier item under
\* one of the written keys and others under keys the run does not write
C15_Witness ==
    /\ runs = 2 /\ puts # <<>>
    /\ \E x \in StaleItems : x \in store
    /\ \E x \in StaleItems : x \notin store /\ \E y \in store : SameKey(x, y)

\* the fetch of the strip-rate pipeline failed: no session, a render
\* timeout, text that is no JSON, JSON without resultsStrip, or an error
\* raised while the day records were parsed
StripFetchFailed ==
    \/ outcomes = <<>>
    \/ resp.kind \in {"timeout", "badjson", "nostrip"}
    \/ /\ resp.kind = "strip"
       /\ \E i \in 1..Len(resp.days) :
              /\ i <= MaxDayRecords
              /\ \/ resp.days[i].rates.k = "null"
                 \/ ~ParseDate(resp.days[i].date).ok

\* C16: in the browser-driven fetcher a created session is torn down
\* exactly once before the function returns, on the success path and on
\* every failure path; it is never torn down while the function still works
\* with it; every failure path returns an empty frame and nothing is
\* raised; when the session cannot be created the function returns an
\* empty frame and no session exists.
C16_SessionTornDownOnce ==
    prog = "CMESOFR" =>
        /\ quits <= 1
        /\ driver = "open" => pc \in {"navigate", "finally"} /\ quits = 0
        /\ driver = "none" => quits = 0 /\ requests = 0
        /\ (FetchReturned /\ requests > 0) => driver = "closed" /\ quits = 1
        /\ (FetchReturned /\ StripFetchFailed) => df = DataFrame(<<>>)
        /\ exitStatus \in {-1, 0}

\* a render timeout after the session was created: the function has
\* returned, empty, with the session closed
C16_Witness ==
    /\ prog = "CMESOFR" /\ pc = "fetched"
    /\ resp.kind = "timeout"
    /\ driver = "closed" /\ quits = 1
    /\ IsEmpty(df)

\* C17: for every input text that is a valid decimal numeral the value of
\* the item stored for it equals decimal.Decimal of that text: here for the
\* overnight rate and the 30-day average of each normalized day record.
C17_StoredEqualsDecimalOfInput ==
    (prog = "CMESOFR" /\ pc = "exited" /\ table = "ok" /\ resp.kind = "strip") =>
        \A i \in 1..Len(resp.days) :
            i <= MaxDayRecords =>
                /\ (/\ resp.days[i].overnight.k = "str"
                    /\ PyDecimal(resp.days[i].overnight.v).ok) =>
                       \E n \in 1..Len(puts) : OvernightItemOf(n, i)
                /\ (/\ resp.days[i].average30day.k = "str"
                    /\ PyDecimal(resp.days[i].average30day.v).ok) =>
                       \E n \in 1..Len(puts) :
                           /\ puts[n].metricId = "SOFR_30D_Avg"
                           /\ puts[n].value = PyDecimal(resp.days[i].average30day.v)

\* C18: CNBC.fetch_cnbc_data issues at most 3 requests; a further request
\* follows only an attempt that failed with a transport error, a non-2xx
\* status or a JSON-decode failure; a response that was processed is the
\* last one; the delay is taken only between two attempts (at most 2, none
\* after the final attempt); after at most 3 attempts the function has
\* returned.
C18_RetryPolicy ==
    prog = "CNBC" =>
        /\ requests <= 3 /\ requests = Len(outcomes)
        /\ \A i \in 1..Len(outcomes) :
               /\ (i < Len(outcomes) \/ pc = "sleep") =>
                      outcomes[i] \in RetryableFailures
               /\ outcomes[i] \notin RetryableFailures =>
                      i = Len(outcomes) /\ FetchReturned
        /\ sleeps <= 2
        /\ (FetchReturned /\ requests > 0) => sleeps = requests - 1
        /\ Len(outcomes) = 3 => FetchReturned

====
